---------------------------- MODULE Spec2Model ----------------------------
(***************************************************************************)
(* Model of stressapptest's Adler checksum / checksummed copy primitives   *)
(* (src/src/adler32memcpy.cc, src/src/adler32memcpy.h).                    *)
(*                                                                         *)
(* Memory is one flat array of 64-bit words; a pointer is a word address   *)
(* and pointer arithmetic (srcmem64 + i) is address arithmetic, so an      *)
(* access past the end of a caller's buffer lands on whatever the caller   *)
(* placed next to it.  A uint64 is kept at its full width as four 16-bit   *)
(* limbs, most significant first, and every addition is taken modulo 2^64. *)
(* Each entry point runs as a sequence of steps of one thread: the size    *)
(* check, and per loop iteration the word reads, the folds and the word    *)
(* stores.                                                                 *)
(***************************************************************************)
EXTENDS Integers, Sequences, FiniteSets, TLC

(***************************************************************************)
(* 64-bit unsigned arithmetic                                              *)
(***************************************************************************)
\* One limb holds 16 bits.
LimbBase == 2^16

\* The uint64 with the value of the small natural n (n < 2^32).
U64(n) == <<0, 0, n \div LimbBase, n % LimbBase>>

\* 2^64 - 1
MaxU64 == <<LimbBase - 1, LimbBase - 1, LimbBase - 1, LimbBase - 1>>

\* x + y in uint64: the carry out of the top limb is dropped.
Add64(x, y) ==
    LET s4 == x[4] + y[4]
        s3 == x[3] + y[3] + (s4 \div LimbBase)
        s2 == x[2] + y[2] + (s3 \div LimbBase)
        s1 == x[1] + y[1] + (s2 \div LimbBase)
    IN  <<s1 % LimbBase, s2 % LimbBase, s3 % LimbBase, s4 % LimbBase>>

(***************************************************************************)
(* struct AdlerChecksum                                                    *)
(***************************************************************************)
\* Number of elements of each of the arrays a and b.
Lanes == 2

\* A default-constructed AdlerChecksum: a {1, 1}, b {0, 0}.
AdlerChecksumInit == [a |-> <<U64(1), U64(1)>>, b |-> <<U64(0), U64(0)>>]

\* AdlerChecksum::increment with the four words d[1..4] of one group.
increment(cs, d) ==
    LET a0x == Add64(cs.a[1], d[1])
        b0x == Add64(cs.b[1], a0x)
        a0y == Add64(a0x, d[2])
        b0y == Add64(b0x, a0y)
        a1x == Add64(cs.a[2], d[3])
        b1x == Add64(cs.b[2], a1x)
        a1y == Add64(a1x, d[4])
        b1y == Add64(b1x, a1y)
    IN  [a |-> <<a0y, a1y>>, b |-> <<b0y, b1y>>]

(***************************************************************************)
(* Sizes                                                                   *)
(***************************************************************************)
\* sizeof(data), data being a uint64.
WordBytes == 8

\* The word count the size checks compare with.  The code's (1U) << 19 is
\* scaled down to a count that a loop of the model can run through; the
\* comparison itself is the code's.
Threshold == 8

\* Words of the flat memory: room for four buffers of Threshold + 1 words
\* and for the last 8-word group of a copy that starts in the last buffer.
MemWords == 4 * (Threshold + 1) + 8

Addrs == 0..(MemWords - 1)

\* The size check with the comparison taken one too strict.
SizeTooLarge_AtThreshold(cnt) == cnt >= Threshold

\* count > (1U) << 19
SizeTooLarge(cnt) == cnt > Threshold

(***************************************************************************)
(* State                                                                   *)
(***************************************************************************)
VARIABLES
    mem,            \* the memory, word address -> uint64
    checksum,       \* thread -> the AdlerChecksum object its caller passes
    pc,             \* thread -> where the thread is
    srcmem64,       \* thread -> parameter srcmem64 (data64 of the calculator)
    dstmem64,       \* thread -> parameter dstmem64
    size_in_bytes,  \* thread -> parameter size_in_bytes
    count,          \* thread -> local count
    i,              \* thread -> loop variable i
    j,              \* thread -> word within the group being read or stored
    buffer,         \* thread -> the words read for this iteration
    ret,            \* thread -> local AdlerChecksum ret
    retval,         \* thread -> the returned flag
    hex,            \* thread -> the string ToHexString returned, <<>> if none
    \* the caller
    mem0,           \* the memory as the caller filled it
    checksum0,      \* the AdlerChecksum objects as the caller left them
    job,            \* thread -> the buffers and size the caller works on
    entry,          \* thread -> the entry point the caller invoked
    phase,          \* "solo": one call at a time; "together": all at once
    results         \* thread -> entry point -> what a solo call produced

frame == <<pc, srcmem64, dstmem64, size_in_bytes, count, i, j, buffer, ret, retval>>
caller == <<mem0, checksum0, job, entry, phase, results>>
vars == <<mem, checksum, hex, frame, caller>>

Threads == DOMAIN pc

EntryPoints == {"CalculateAdlerChecksum", "AdlerMemcpyC",
                "AdlerMemcpyWarmC", "AdlerMemcpyAsm"}

CopyEntryPoints == EntryPoints \ {"CalculateAdlerChecksum"}

NoBuffer == [k \in 1..8 |-> U64(0)]

(***************************************************************************)
(* CalculateAdlerChecksum                                                  *)
(***************************************************************************)
\* The call: the parameters are bound and the body starts.
CalculateAdlerChecksum(t, data64, size) ==
    /\ pc' = [pc EXCEPT ![t] = "Calc_check"]
    /\ srcmem64' = [srcmem64 EXCEPT ![t] = data64]
    /\ size_in_bytes' = [size_in_bytes EXCEPT ![t] = size]
    /\ UNCHANGED <<dstmem64, count, i, j, buffer, ret, retval>>

\* count = size_in_bytes / sizeof(data); the size check; AdlerChecksum ret{}.
Calc_SizeCheck(t) ==
    /\ pc[t] = "Calc_check"
    /\ LET cnt == size_in_bytes[t] \div WordBytes IN
         /\ count' = [count EXCEPT ![t] = cnt]
         /\ IF SizeTooLarge(cnt)
              THEN /\ retval' = [retval EXCEPT ![t] = FALSE]
                   /\ pc' = [pc EXCEPT ![t] = "done"]
                   /\ UNCHANGED <<ret, i>>
              ELSE /\ ret' = [ret EXCEPT ![t] = AdlerChecksumInit]
                   /\ i' = [i EXCEPT ![t] = 0]
                   /\ pc' = [pc EXCEPT ![t] = "Calc_loop"]
                   /\ UNCHANGED retval
    /\ UNCHANGED <<mem, checksum, hex, srcmem64, dstmem64, size_in_bytes, j, buffer>>
    /\ UNCHANGED caller

\* The loop test i < count; past the loop, *checksum = ret; return true.
Calc_Loop(t) ==
    /\ pc[t] = "Calc_loop"
    /\ IF i[t] < count[t]
         THEN /\ pc' = [pc EXCEPT ![t] = "Calc_read"]
              /\ j' = [j EXCEPT ![t] = 0]
              /\ UNCHANGED <<checksum, retval>>
         ELSE /\ checksum' = [checksum EXCEPT ![t] = ret[t]]
              /\ retval' = [retval EXCEPT ![t] = TRUE]
              /\ pc' = [pc EXCEPT ![t] = "done"]
              /\ UNCHANGED j
    /\ UNCHANGED <<mem, hex, srcmem64, dstmem64, size_in_bytes, count, i, buffer, ret>>
    /\ UNCHANGED caller

\* Words of one group of the calculator.
CalcGroup == 4

\* The read of data64[i + j], one of the four arguments of increment.
Calc_Read(t) ==
    /\ pc[t] = "Calc_read"
    /\ buffer' = [buffer EXCEPT ![t][j[t] + 1] = mem[srcmem64[t] + i[t] + j[t]]]
    /\ IF j[t] + 1 < CalcGroup
         THEN /\ j' = [j EXCEPT ![t] = j[t] + 1]
              /\ UNCHANGED pc
         ELSE /\ pc' = [pc EXCEPT ![t] = "Calc_inc"]
              /\ UNCHANGED j
    /\ UNCHANGED <<mem, checksum, hex, srcmem64, dstmem64, size_in_bytes, count, i, ret, retval>>
    /\ UNCHANGED caller

\* The fold of the calculator with the loop stepping by a copy's 8 words.
Calc_Increment_Stride8(t) ==
    /\ pc[t] = "Calc_inc"
    /\ ret' = [ret EXCEPT ![t] = increment(ret[t], SubSeq(buffer[t], 1, 4))]
    /\ i' = [i EXCEPT ![t] = i[t] + 8]
    /\ pc' = [pc EXCEPT ![t] = "Calc_loop"]
    /\ UNCHANGED <<mem, checksum, hex, srcmem64, dstmem64, size_in_bytes, count, j, buffer, retval>>
    /\ UNCHANGED caller

\* ret.increment({...}); i += 4.
Calc_Increment(t) ==
    /\ pc[t] = "Calc_inc"
    /\ ret' = [ret EXCEPT ![t] = increment(ret[t], SubSeq(buffer[t], 1, 4))]
    /\ i' = [i EXCEPT ![t] = i[t] + CalcGroup]
    /\ pc' = [pc EXCEPT ![t] = "Calc_loop"]
    /\ UNCHANGED <<mem, checksum, hex, srcmem64, dstmem64, size_in_bytes, count, j, buffer, retval>>
    /\ UNCHANGED caller

(***************************************************************************)
(* AdlerMemcpyC and the two entry points that call it                      *)
(***************************************************************************)
\* The call: the parameters are bound and the body starts.
AdlerMemcpyC(t, dst, src, size) ==
    /\ pc' = [pc EXCEPT ![t] = "Copy_check"]
    /\ dstmem64' = [dstmem64 EXCEPT ![t] = dst]
    /\ srcmem64' = [srcmem64 EXCEPT ![t] = src]
    /\ size_in_bytes' = [size_in_bytes EXCEPT ![t] = size]
    /\ UNCHANGED <<count, i, j, buffer, ret, retval>>

\* The warm entry point passing the two buffers in the wrong order.
AdlerMemcpyWarmC_Swapped(t, dst, src, size) == AdlerMemcpyC(t, src, dst, size)

\* return AdlerMemcpyC(dstmem64, srcmem64, size_in_bytes, checksum);
AdlerMemcpyWarmC(t, dst, src, size) == AdlerMemcpyC(t, dst, src, size)

\* return AdlerMemcpyC(dstmem64, srcmem64, size_in_bytes, checksum);
AdlerMemcpyAsm(t, dst, src, size) == AdlerMemcpyC(t, dst, src, size)

\* count = size_in_bytes / sizeof(data); the size check; AdlerChecksum ret{}.
Copy_SizeCheck(t) ==
    /\ pc[t] = "Copy_check"
    /\ LET cnt == size_in_bytes[t] \div WordBytes IN
         /\ count' = [count EXCEPT ![t] = cnt]
         /\ IF SizeTooLarge(cnt)
              THEN /\ retval' = [retval EXCEPT ![t] = FALSE]
                   /\ pc' = [pc EXCEPT ![t] = "done"]
                   /\ UNCHANGED <<ret, i>>
              ELSE /\ ret' = [ret EXCEPT ![t] = AdlerChecksumInit]
                   /\ i' = [i EXCEPT ![t] = 0]
                   /\ pc' = [pc EXCEPT ![t] = "Copy_loop"]
                   /\ UNCHANGED retval
    /\ UNCHANGED <<mem, checksum, hex, srcmem64, dstmem64, size_in_bytes, j, buffer>>
    /\ UNCHANGED caller

\* The loop test i < count; past the loop, *checksum = ret; return true.
Copy_Loop(t) ==
    /\ pc[t] = "Copy_loop"
    /\ IF i[t] < count[t]
         THEN /\ pc' = [pc EXCEPT ![t] = "Copy_read"]
              /\ j' = [j EXCEPT ![t] = 0]
              /\ UNCHANGED <<checksum, retval>>
         ELSE /\ checksum' = [checksum EXCEPT ![t] = ret[t]]
              /\ retval' = [retval EXCEPT ![t] = TRUE]
              /\ pc' = [pc EXCEPT ![t] = "done"]
              /\ UNCHANGED j
    /\ UNCHANGED <<mem, hex, srcmem64, dstmem64, size_in_bytes, count, i, buffer, ret>>
    /\ UNCHANGED caller

\* Words of one iteration of the copy.
CopyGroup == 8

\* extractData<8>(srcmem64 + i): the read of word j of the group.
extractData(t) ==
    /\ pc[t] = "Copy_read"
    /\ buffer' = [buffer EXCEPT ![t][j[t] + 1] = mem[srcmem64[t] + i[t] + j[t]]]
    /\ IF j[t] + 1 < CopyGroup
         THEN /\ j' = [j EXCEPT ![t] = j[t] + 1]
              /\ UNCHANGED pc
         ELSE /\ pc' = [pc EXCEPT ![t] = "Copy_inc"]
              /\ UNCHANGED j
    /\ UNCHANGED <<mem, checksum, hex, srcmem64, dstmem64, size_in_bytes, count, i, ret, retval>>
    /\ UNCHANGED caller

\* The two ret.increment calls of one iteration.
Copy_Increment(t) ==
    /\ pc[t] = "Copy_inc"
    /\ ret' = [ret EXCEPT ![t] = increment(increment(ret[t], SubSeq(buffer[t], 1, 4)),
                                           SubSeq(buffer[t], 5, 8))]
    /\ j' = [j EXCEPT ![t] = 0]
    /\ pc' = [pc EXCEPT ![t] = "Copy_store"]
    /\ UNCHANGED <<mem, checksum, hex, srcmem64, dstmem64, size_in_bytes, count, i, buffer, retval>>
    /\ UNCHANGED caller

\* __builtin_nontemporal_store(buffer[j], dstmem64 + i + j); past j = 7, i += 8.
Copy_Store(t) ==
    /\ pc[t] = "Copy_store"
    /\ mem' = [mem EXCEPT ![dstmem64[t] + i[t] + j[t]] = buffer[t][j[t] + 1]]
    /\ IF j[t] + 1 < CopyGroup
         THEN /\ j' = [j EXCEPT ![t] = j[t] + 1]
              /\ UNCHANGED <<pc, i>>
         ELSE /\ i' = [i EXCEPT ![t] = i[t] + CopyGroup]
              /\ pc' = [pc EXCEPT ![t] = "Copy_loop"]
              /\ UNCHANGED j
    /\ UNCHANGED <<checksum, hex, srcmem64, dstmem64, size_in_bytes, count, buffer, ret, retval>>
    /\ UNCHANGED caller

(***************************************************************************)
(* AdlerChecksum::ToHexString                                              *)
(***************************************************************************)
\* sizeof(buffer)
HexBufferSize == 128

HexDigits == <<"0", "1", "2", "3", "4", "5", "6", "7",
               "8", "9", "a", "b", "c", "d", "e", "f">>

\* The four hexadecimal digits of one 16-bit limb.
Hex4(n) ==
    <<HexDigits[(n \div 4096) + 1], HexDigits[((n \div 256) % 16) + 1],
      HexDigits[((n \div 16) % 16) + 1], HexDigits[(n % 16) + 1]>>

\* %016llx of a uint64.
Hex16(x) == Hex4(x[1]) \o Hex4(x[2]) \o Hex4(x[3]) \o Hex4(x[4])

\* The arguments snprintf is given, in order: the array and the index.
HexArgs ==
    << <<"a", 0>>, <<"a", 1>>, <<"a", 2>>, <<"a", 3>>,
       <<"b", 0>>, <<"b", 1>>, <<"b", 2>>, <<"b", 3>> >>

\* The arguments whose index is past the end of the array they are read from.
HexOutOfRange == {k \in 1..Len(HexArgs) : HexArgs[k][2] >= Lanes}

\* What a read past the end of an array may find there.
Garbage == {U64(0), MaxU64}

\* The fields joined by single spaces.
RECURSIVE JoinFields(_)
JoinFields(fs) ==
    IF Len(fs) = 0 THEN <<>>
    ELSE IF Len(fs) = 1 THEN Hex16(fs[1])
    ELSE Hex16(fs[1]) \o <<" ">> \o JoinFields(Tail(fs))

\* The string snprintf leaves in buffer: at most sizeof(buffer) - 1 characters.
\* g gives the value found by each read past the end of a or b.
ToHexString(cs, g) ==
    LET arg(k) == IF k \in HexOutOfRange THEN g[k]
                  ELSE cs[HexArgs[k][1]][HexArgs[k][2] + 1]
        full == JoinFields([k \in 1..Len(HexArgs) |-> arg(k)])
    IN  IF Len(full) < HexBufferSize THEN full
        ELSE SubSeq(full, 1, HexBufferSize - 1)

(***************************************************************************)
(* The caller: it fills the memory, places the buffers, calls the entry    *)
(* points and keeps what they produced.                                    *)
(***************************************************************************)
\* Fill patterns of the memory.
Patterns ==
    { [x \in Addrs |-> U64(x + 2)],
      [x \in Addrs |-> MaxU64],
      [x \in Addrs |-> IF x % 2 = 0 THEN MaxU64 ELSE U64(0)] }

\* What the caller's AdlerChecksum object may hold before a call.
StaleChecksum == [a |-> <<U64(7), U64(7)>>, b |-> <<U64(9), U64(9)>>]

\* Words of a buffer of size bytes.
BufferWords(size) == (size + WordBytes - 1) \div WordBytes

\* The orders in which n buffers may lie in memory.
Orders(n) == {p \in [1..n -> 1..n] : \A x, y \in 1..n : p[x] = p[y] => x = y}

\* Buffer 2t - 1 is the source of thread t, buffer 2t its destination.
SizeOfBuffer(sizes, b) == BufferWords(sizes[(b + 1) \div 2])

\* The address of the buffer at place k of the order: the buffers lie one
\* right after the other from address 0.
RECURSIVE BaseOfPlace(_, _, _)
BaseOfPlace(order, sizes, k) ==
    IF k = 1 THEN 0
    ELSE BaseOfPlace(order, sizes, k - 1) + SizeOfBuffer(sizes, order[k - 1])

BaseOf(order, sizes, b) ==
    BaseOfPlace(order, sizes, CHOOSE k \in DOMAIN order : order[k] = b)

NoResult == [valid |-> FALSE, ret |-> FALSE, checksum |-> AdlerChecksumInit, mem |-> <<>>]

\* The request sizes of a lone caller: every word count up to one past the
\* threshold, and one size that is not a whole number of words.
Sizes == {WordBytes * k : k \in 0..(Threshold + 1)} \cup {WordBytes + 4}

\* The request sizes of concurrent workers.
WorkerSizes == {WordBytes * 4, WordBytes * 8, WordBytes * (Threshold + 1)}

InitWith(n, sizeSet) ==
    /\ mem0 \in Patterns
    /\ mem = mem0
    /\ \E c \in {AdlerChecksumInit, StaleChecksum} : checksum0 = [t \in 1..n |-> c]
    /\ checksum = checksum0
    /\ \E order \in Orders(2 * n), sizes \in [1..n -> sizeSet] :
         job = [t \in 1..n |-> [src |-> BaseOf(order, sizes, 2 * t - 1),
                                dst |-> BaseOf(order, sizes, 2 * t),
                                size |-> sizes[t]]]
    /\ pc = [t \in 1..n |-> "idle"]
    /\ srcmem64 = [t \in 1..n |-> 0]
    /\ dstmem64 = [t \in 1..n |-> 0]
    /\ size_in_bytes = [t \in 1..n |-> 0]
    /\ count = [t \in 1..n |-> 0]
    /\ i = [t \in 1..n |-> 0]
    /\ j = [t \in 1..n |-> 0]
    /\ buffer = [t \in 1..n |-> NoBuffer]
    /\ ret = [t \in 1..n |-> AdlerChecksumInit]
    /\ retval = [t \in 1..n |-> FALSE]
    /\ hex = [t \in 1..n |-> <<>>]
    /\ entry = [t \in 1..n |-> "none"]
    /\ phase = "solo"
    /\ results = [t \in 1..n |-> [f \in EntryPoints |-> NoResult]]

\* A call of entry point f by thread t while no other thread runs.
Call(t, f) ==
    /\ phase = "solo"
    /\ \A u \in Threads : pc[u] = "idle"
    /\ ~results[t][f].valid
    /\ entry' = [entry EXCEPT ![t] = f]
    /\ \/ /\ f = "CalculateAdlerChecksum"
          /\ CalculateAdlerChecksum(t, job[t].src, job[t].size)
       \/ /\ f = "AdlerMemcpyC"
          /\ AdlerMemcpyC(t, job[t].dst, job[t].src, job[t].size)
       \/ /\ f = "AdlerMemcpyWarmC"
          /\ AdlerMemcpyWarmC(t, job[t].dst, job[t].src, job[t].size)
       \/ /\ f = "AdlerMemcpyAsm"
          /\ AdlerMemcpyAsm(t, job[t].dst, job[t].src, job[t].size)
    /\ UNCHANGED <<mem, checksum, hex, mem0, checksum0, job, phase, results>>

\* The caller logs the checksum a finished call left it.
LogChecksum(t) ==
    /\ pc[t] = "done"
    /\ hex[t] = <<>>
    /\ \E g \in [HexOutOfRange -> Garbage] :
         hex' = [hex EXCEPT ![t] = ToHexString(checksum[t], g)]
    /\ UNCHANGED <<mem, checksum, frame, caller>>

\* The caller keeps what the call produced and refills the memory.
Return(t) ==
    /\ phase = "solo"
    /\ pc[t] = "done"
    /\ results' = [results EXCEPT ![t][entry[t]] =
                      [valid |-> TRUE, ret |-> retval[t],
                       checksum |-> checksum[t], mem |-> mem]]
    /\ mem' = mem0
    /\ checksum' = checksum0
    /\ hex' = [hex EXCEPT ![t] = <<>>]
    /\ pc' = [pc EXCEPT ![t] = "idle"]
    /\ srcmem64' = [srcmem64 EXCEPT ![t] = 0]
    /\ dstmem64' = [dstmem64 EXCEPT ![t] = 0]
    /\ size_in_bytes' = [size_in_bytes EXCEPT ![t] = 0]
    /\ count' = [count EXCEPT ![t] = 0]
    /\ i' = [i EXCEPT ![t] = 0]
    /\ j' = [j EXCEPT ![t] = 0]
    /\ buffer' = [buffer EXCEPT ![t] = NoBuffer]
    /\ ret' = [ret EXCEPT ![t] = AdlerChecksumInit]
    /\ retval' = [retval EXCEPT ![t] = FALSE]
    /\ entry' = [entry EXCEPT ![t] = "none"]
    /\ UNCHANGED <<mem0, checksum0, job, phase>>

\* Every worker has run alone: from now on they run at once.
GoTogether ==
    /\ phase = "solo"
    /\ \A u \in Threads : pc[u] = "idle" /\ results[u]["AdlerMemcpyC"].valid
    /\ phase' = "together"
    /\ UNCHANGED <<mem, checksum, hex, frame, mem0, checksum0, job, entry, results>>

\* A worker starts its copy while the others run theirs.
Start(t) ==
    /\ phase = "together"
    /\ pc[t] = "idle"
    /\ entry' = [entry EXCEPT ![t] = "AdlerMemcpyC"]
    /\ AdlerMemcpyC(t, job[t].dst, job[t].src, job[t].size)
    /\ UNCHANGED <<mem, checksum, hex, mem0, checksum0, job, phase, results>>

(***************************************************************************)
(* Specifications                                                          *)
(***************************************************************************)
\* One thread calls the entry points one after the other on the same input.
Init == InitWith(1, Sizes)

Next ==
    \/ \E t \in Threads, f \in EntryPoints : Call(t, f)
    \/ \E t \in Threads : Calc_SizeCheck(t)
    \/ \E t \in Threads : Calc_Loop(t)
    \/ \E t \in Threads : Calc_Read(t)
    \/ \E t \in Threads : Calc_Increment(t)
    \/ \E t \in Threads : Copy_SizeCheck(t)
    \/ \E t \in Threads : Copy_Loop(t)
    \/ \E t \in Threads : extractData(t)
    \/ \E t \in Threads : Copy_Increment(t)
    \/ \E t \in Threads : Copy_Store(t)
    \/ \E t \in Threads : LogChecksum(t)
    \/ \E t \in Threads : Return(t)

Spec == Init /\ [][Next]_vars

\* Two workers copy, each first alone and then both at once.
InitWorkers == InitWith(2, WorkerSizes)

NextWorkers ==
    \/ \E t \in Threads : Call(t, "AdlerMemcpyC")
    \/ \E t \in Threads : Return(t)
    \/ GoTogether
    \/ \E t \in Threads : Start(t)
    \/ \E t \in Threads : Copy_SizeCheck(t)
    \/ \E t \in Threads : Copy_Loop(t)
    \/ \E t \in Threads : extractData(t)
    \/ \E t \in Threads : Copy_Increment(t)
    \/ \E t \in Threads : Copy_Store(t)

SpecWorkers == InitWorkers /\ [][NextWorkers]_vars

(***************************************************************************)
(* Properties                                                              *)
(***************************************************************************)
\* The word count of the request thread t's caller makes.
WordCount(t) == job[t].size \div WordBytes

\* Source word k of thread t's request as the caller filled it.
SourceWord(t, k) == mem0[job[t].src + k]

\* The request meets what the code's comment assumes of every call:
\* size_in_bytes is a multiple of 16 (so also whole words) and both buffers
\* are 16-byte aligned.
Documented(t) ==
    /\ job[t].size % 16 = 0
    /\ job[t].src % 2 = 0
    /\ job[t].dst % 2 = 0

\* C1: after an accepted AdlerMemcpyC every destination word below count is
\* the source word the call started with, and the source is unchanged.
\* Stated for the accepted requests that meet the documented preconditions.
C1_CopyFidelity ==
    \A t \in Threads :
        (pc[t] = "done" /\ entry[t] = "AdlerMemcpyC" /\ retval[t] /\ Documented(t)) =>
            \A k \in 0..(WordCount(t) - 1) :
                /\ mem[job[t].dst + k] = SourceWord(t, k)
                /\ mem[job[t].src + k] = SourceWord(t, k)

\* C2: for a request that meets the documented preconditions, below the size
\* bound, CalculateAdlerChecksum and AdlerMemcpyC write the same checksum.
C2_CalculatorEqualsCopier ==
    \A t \in Threads :
        LET calc == results[t]["CalculateAdlerChecksum"]
            copy == results[t]["AdlerMemcpyC"]
        IN  (calc.valid /\ copy.valid /\ Documented(t) /\ WordCount(t) < Threshold) =>
                calc.checksum = copy.checksum

Leq64(x, y) ==
    \/ x = y
    \/ \E k \in 1..4 : /\ x[k] < y[k]
                       /\ \A m \in 1..(k - 1) : x[m] = y[m]

\* Every lane of y is at least the same lane of x.
LanesLeq(x, y) ==
    \A k \in 1..Lanes : Leq64(x.a[k], y.a[k]) /\ Leq64(x.b[k], y.b[k])

\* C4: within an accepted request no fold makes a lane smaller (no lane
\* wraps past 2^64), whatever the words are.  Stated for the requests that
\* meet the documented preconditions.
C4_NoLaneWraps ==
    [][\A t \in Threads :
          (pc[t] \in {"Calc_inc", "Copy_inc"} /\ pc'[t] # pc[t] /\ Documented(t)) =>
              LanesLeq(ret[t], ret'[t])]_vars

\* C5: CalculateAdlerChecksum and AdlerMemcpyC refuse every request of
\* 2^19 words or more (here Threshold).
C5_SizeBoundStrict ==
    \A t \in Threads :
        (/\ pc[t] = "done"
         /\ entry[t] \in {"CalculateAdlerChecksum", "AdlerMemcpyC"}
         /\ WordCount(t) >= Threshold) => retval[t] = FALSE

\* Adler over one stream of words: a starts at 1 and takes each word in
\* turn, b starts at 0 and takes a after each word.
RECURSIVE AdlerOfStream(_)
AdlerOfStream(s) ==
    IF Len(s) = 0 THEN [a |-> U64(1), b |-> U64(0)]
    ELSE LET p == AdlerOfStream(SubSeq(s, 1, Len(s) - 1))
             a == Add64(p.a, s[Len(s)])
         IN  [a |-> a, b |-> Add64(p.b, a)]

\* Stream n (0 or 1) of a request of cnt words: of each group of four
\* words, words 2n and 2n + 1.
RECURSIVE StreamOf(_, _, _)
StreamOf(t, n, cnt) ==
    IF cnt = 0 THEN <<>>
    ELSE StreamOf(t, n, cnt - 4)
            \o <<SourceWord(t, cnt - 4 + 2 * n), SourceWord(t, cnt - 4 + 2 * n + 1)>>

\* The forward fold of consecutive 4-word groups, lane by lane.
ReferenceFold(t) ==
    LET s0 == AdlerOfStream(StreamOf(t, 0, WordCount(t)))
        s1 == AdlerOfStream(StreamOf(t, 1, WordCount(t)))
    IN  [a |-> <<s0.a, s1.a>>, b |-> <<s0.b, s1.b>>]

\* The request is the single group [2, 3, 4, 5].
IsGroup2345(t) ==
    /\ WordCount(t) = 4
    /\ \A k \in 0..3 : SourceWord(t, k) = U64(k + 2)

C7_VariantEquivalence ==
    \A t \in Threads :
        \A f \in CopyEntryPoints :
            results[t][f].valid =>
                /\ \A g \in CopyEntryPoints :
                      results[t][g].valid => results[t][f] = results[t][g]
                /\ ~results[t][f].ret =>
                      /\ results[t][f].mem = mem0
                      /\ results[t][f].checksum = checksum0[t]

\* C7's case: all three entry points have copied the same non-empty request,
\* changing the memory.
C7_Witness ==
    \E t \in Threads :
        /\ \A f \in CopyEntryPoints : results[t][f].valid /\ results[t][f].ret
        /\ WordCount(t) > 0
        /\ results[t]["AdlerMemcpyWarmC"].mem # mem0

\* The four lanes a0 a1 b0 b1 as 16-digit fields with single spaces between.
FourLaneString(cs) ==
    Hex16(cs.a[1]) \o <<" ">> \o Hex16(cs.a[2]) \o <<" ">>
        \o Hex16(cs.b[1]) \o <<" ">> \o Hex16(cs.b[2])

\* C8: ToHexString renders exactly the four lanes, each as one 16-digit
\* field, and reads no index of a or b outside 0..1.
C8_HexStringFourLanes ==
    \A t \in Threads :
        hex[t] # <<>> =>
            /\ hex[t] = FourLaneString(checksum[t])
            /\ HexOutOfRange = {}

\* C9: a worker that copied while the others copied ends with the flag, the
\* checksum and the destination words it got when it ran alone.  Stated for
\* the workers whose request meets the documented preconditions.
C9_WorkersAsAlone ==
    \A t \in Threads :
        (phase = "together" /\ pc[t] = "done" /\ Documented(t)) =>
            LET alone == results[t]["AdlerMemcpyC"] IN
            /\ retval[t] = alone.ret
            /\ checksum[t] = alone.checksum
            /\ \A k \in 0..(WordCount(t) - 1) :
                  mem[job[t].dst + k] = alone.mem[job[t].dst + k]

\* C10: for an accepted request that meets the documented preconditions
\* (a multiple of 16 bytes, aligned buffers), every source
\* read and every destination store is at an index below count, and the
\* destination words from count on are as they were.
C10_InBoundsAccess ==
    \A t \in Threads :
        Documented(t) =>
            /\ pc[t] \in {"Calc_read", "Copy_read", "Copy_store"} =>
                  i[t] + j[t] < count[t]
            /\ (pc[t] = "done" /\ entry[t] = "AdlerMemcpyC") =>
                  \A x \in Addrs :
                      x >= job[t].dst + WordCount(t) => mem[x] = mem0[x]

====
